---------------------------- MODULE Spec2Model ----------------------------
(***************************************************************************)
(* A model of vs/platform/list/browser/listService.ts:                     *)
(*                                                                         *)
(*   - ListService: the registry of list widgets and lastFocusedList       *)
(*     (specification Spec);                                               *)
(*   - the context keys the workbench widgets bind to their selection and  *)
(*     focus (specification SpecKeys);                                     *)
(*   - MultipleSelectionController and WorkbenchOpenController, which      *)
(*     cache a setting and refresh it on configuration-change events       *)
(*     (specification SpecControllers);                                    *)
(*   - the options of WorkbenchObjectTree, WorkbenchDataTree and           *)
(*     WorkbenchAsyncDataTree, set at construction and on                  *)
(*     configuration-change events, and the options WorkbenchList and      *)
(*     WorkbenchPagedList hand to their widget (specification SpecTree);   *)
(*   - TreeResourceNavigator2, which turns the selection and focus events  *)
(*     of a tree into open events (specification SpecNavigator);           *)
(*   - WorkbenchTreeController and its open mode (specification            *)
(*     SpecTreeController).                                                *)
(*                                                                         *)
(* JavaScript runs every handler to completion, so each handler is one     *)
(* atomic action.                                                          *)
(***************************************************************************)
EXTENDS Integers, Sequences, FiniteSets

VARIABLES
    \* ---- ListService
    lists,              \* ListService.lists: sequence of IRegisteredList identities
    lastFocusedWidget,  \* ListService._lastFocusedWidget
    regWidget,          \* IRegisteredList.widget of each registration made so far
    regState,           \* "unused" | "active" (listeners attached) | "disposed"
    widgetState,        \* "alive" | "disposedRegistered" | "disposedUnregistered"
    activeElement,      \* document.activeElement: a widget, or Undefined (a non-list element)
    lastDelivered,      \* history: the widgets not disposed since, by recency of the focus
                        \* ListService noticed (onDidFocus delivered, or active at register)
    lastOp,             \* the operation that produced this state
    \* ---- configuration service
    config,             \* the value of each setting
    \* ---- context keys of one workbench widget
    kind, selection, focus, keys,
    \* ---- MultipleSelectionController / WorkbenchOpenController
    msc, woc, isMacintosh, lastCall,
    \* ---- one of the three workbench trees
    tree,
    \* ---- TreeResourceNavigator2 and the tree it listens to
    nav,                \* openOnFocus, and the tree's openOnSingleClick, selection, focus
    opened,             \* the open events fired while the last tree event was handled
    \* ---- WorkbenchTreeController
    wtc

lsVars   == <<lists, lastFocusedWidget, regWidget, regState, widgetState,
              activeElement, lastDelivered, lastOp>>
keyVars  == <<kind, selection, focus, keys>>
ctlVars  == <<msc, woc, isMacintosh, lastCall>>
treeVars == <<tree>>
navVars  == <<nav, opened>>
wtcVars  == <<wtc>>
vars     == <<lsVars, config, keyVars, ctlVars, treeVars, navVars, wtcVars>>

\* what the actions of one part of the model leave alone
notListService == <<config, keyVars, ctlVars, treeVars, navVars, wtcVars>>
notKeys        == <<lsVars, config, ctlVars, treeVars, navVars, wtcVars>>
notControllers == <<lsVars, keyVars, treeVars, navVars, wtcVars>>
notTree        == <<lsVars, keyVars, msc, woc, isMacintosh, navVars, wtcVars>>
notNavigator   == <<lsVars, config, keyVars, msc, woc, isMacintosh, treeVars, wtcVars>>
notTreeController == <<lsVars, keyVars, msc, woc, isMacintosh, treeVars, navVars>>

(***************************************************************************)
(* Bounds of the model.                                                    *)
(***************************************************************************)
NumWidgets  == 2    \* list widgets that exist
MaxRegs     == 3    \* successful calls of ListService.register
NumElements == 3    \* elements of the widget whose context keys are modelled
MaxAffected == 2    \* settings one configuration-change event affects

Widgets  == 1..NumWidgets
Regs     == 1..MaxRegs
Elements == 1..NumElements

\* `undefined`, as the value of _lastFocusedWidget and of a non-list active element
Undefined == 0

(***************************************************************************)
(*                              ListService                                *)
(***************************************************************************)

\* Array.prototype.filter(l => l !== x)
RECURSIVE Without(_, _)
Without(s, x) ==
    IF s = << >> THEN << >>
    ELSE IF Head(s) = x THEN Without(Tail(s), x)
         ELSE <<Head(s)>> \o Without(Tail(s), x)

\* Array.prototype.indexOf, 0-based, -1 when absent
RECURSIVE IndexOf(_, _)
IndexOf(s, x) ==
    IF s = << >> THEN -1
    ELSE IF Head(s) = x THEN 0
         ELSE LET i == IndexOf(Tail(s), x) IN IF i = -1 THEN -1 ELSE i + 1

\* Array.prototype.splice(start, 1): a negative start counts from the end
Splice1(s, start) ==
    LET n == Len(s)
        from == IF start < 0 THEN (IF n + start < 0 THEN 0 ELSE n + start)
                ELSE (IF start > n THEN n ELSE start)
    IN  [i \in 1..(IF from < n THEN n - 1 ELSE n) |->
            IF i <= from THEN s[i] ELSE s[i + 1]]

\* this.lists.some(l => l.widget === widget)
InLists(w) == \E i \in 1..Len(lists) : regWidget[lists[i]] = w

\* the registrations of w whose listeners are attached
ActiveRegs(w) == {r \in Regs : regState[r] = "active" /\ regWidget[r] = w}

UsedRegs == {r \in Regs : regState[r] # "unused"}

\* lastOp: the operation, its widget, whether a registration of the widget had
\* its listeners attached when the operation began, whether register threw
Op(name, w, handled, threw) ==
    [op |-> name, w |-> w, handled |-> handled, threw |-> threw]

InitListService ==
    /\ lists = << >>
    /\ lastFocusedWidget = Undefined
    /\ regWidget = [r \in Regs |-> Undefined]
    /\ regState = [r \in Regs |-> "unused"]
    /\ widgetState = [w \in Widgets |-> "alive"]
    /\ activeElement = Undefined
    /\ lastDelivered = << >>
    /\ lastOp = Op("init", Undefined, FALSE, FALSE)

\* register(widget), the call that throws: nothing is changed
RegisterThrows(w) ==
    /\ InLists(w)
    /\ lastOp' = Op("register", w, ActiveRegs(w) # {} /\ widgetState[w] = "alive", TRUE)
    /\ UNCHANGED <<lists, lastFocusedWidget, regWidget, regState, widgetState,
                   activeElement, lastDelivered>>
    /\ UNCHANGED notListService

\* a check that takes every registered widget for the focused one
RegisterLastAlways(w, active, last) == w

\* register's check for the widget being focused: what it leaves in
\* _lastFocusedWidget when document.activeElement is `active`
RegisterLast(w, active, last) == IF active = w THEN w ELSE last

\* register(widget), the call that succeeds
RegisterOk(w) ==
    /\ ~InLists(w)
    /\ Cardinality(UsedRegs) < MaxRegs
    /\ LET r == Cardinality(UsedRegs) + 1 IN
        /\ lists' = Append(lists, r)
        /\ regWidget' = [regWidget EXCEPT ![r] = w]
        /\ regState' = [regState EXCEPT ![r] = "active"]
    /\ lastFocusedWidget' = RegisterLast(w, activeElement, lastFocusedWidget)
    /\ lastDelivered' = IF activeElement = w THEN Append(Without(lastDelivered, w), w)
                        ELSE lastDelivered
    /\ lastOp' = Op("register", w, ActiveRegs(w) # {} /\ widgetState[w] = "alive", FALSE)
    /\ UNCHANGED <<widgetState, activeElement>>
    /\ UNCHANGED notListService

Register(w) == RegisterThrows(w) \/ RegisterOk(w)

\* a listener that keeps the first widget focused
OnDidFocusKeepsFirst(w, last) == IF last = Undefined THEN w ELSE last

\* the listener of widget.onDidFocus
OnDidFocus(w, last) == w

\* The element of widget w takes the DOM focus and w fires onDidFocus.
Focus(w) ==
    /\ widgetState[w] = "alive"
    /\ activeElement' = w
    /\ lastFocusedWidget' = IF ActiveRegs(w) # {} THEN OnDidFocus(w, lastFocusedWidget)
                            ELSE lastFocusedWidget
    /\ lastDelivered' = IF ActiveRegs(w) # {} THEN Append(Without(lastDelivered, w), w)
                        ELSE lastDelivered
    /\ lastOp' = Op("focus", w, ActiveRegs(w) # {}, FALSE)
    /\ UNCHANGED <<lists, regWidget, regState, widgetState>>
    /\ UNCHANGED notListService

\* The DOM focus moves from a list to an element that is no list: ListService
\* listens to no blur event.
Blur ==
    /\ activeElement # Undefined
    /\ activeElement' = Undefined
    /\ lastOp' = Op("blur", Undefined, FALSE, FALSE)
    /\ UNCHANGED <<lists, lastFocusedWidget, regWidget, regState, widgetState,
                   lastDelivered>>
    /\ UNCHANGED notListService

\* the listeners of widget.onDidDispose, one per attached registration of w
RECURSIVE FilterRegs(_, _)
FilterRegs(s, rs) ==
    IF rs = {} THEN s
    ELSE LET r == CHOOSE x \in rs : TRUE IN FilterRegs(Without(s, r), rs \ {r})

\* a listener that forgets the focused widget whoever is disposed
OnDidDisposeLastAlwaysClears(w, last) == Undefined

\* what the listener of widget.onDidDispose leaves in _lastFocusedWidget
OnDidDisposeLast(w, last) == IF last = w THEN Undefined ELSE last

\* Widget w is disposed: it fires onDidDispose and its element leaves the DOM.
WidgetDispose(w) ==
    /\ widgetState[w] = "alive"
    /\ widgetState' = [widgetState EXCEPT ![w] =
            IF ActiveRegs(w) # {} THEN "disposedRegistered" ELSE "disposedUnregistered"]
    /\ activeElement' = IF activeElement = w THEN Undefined ELSE activeElement
    /\ lists' = FilterRegs(lists, ActiveRegs(w))
    /\ lastFocusedWidget' = IF ActiveRegs(w) # {} THEN OnDidDisposeLast(w, lastFocusedWidget)
                            ELSE lastFocusedWidget
    /\ lastDelivered' = Without(lastDelivered, w)
    /\ lastOp' = Op("widgetDispose", w, ActiveRegs(w) # {}, FALSE)
    /\ UNCHANGED <<regWidget, regState>>
    /\ UNCHANGED notListService

\* a disposable that leaves the registry alone
UnregisterNothing(s, r) == s

\* toDisposable(() => this.lists.splice(this.lists.indexOf(registeredList), 1))
Unregister(s, r) == Splice1(s, IndexOf(s, r))

\* The disposable returned by register is disposed (again, when regState[r] is
\* already "disposed"): combinedDisposable disposes its three members in order;
\* removing a listener twice does nothing, the toDisposable function runs each time.
DisposeRegistration(r) ==
    /\ regState[r] # "unused"
    /\ regState' = [regState EXCEPT ![r] = "disposed"]
    /\ lists' = Unregister(lists, r)
    /\ lastOp' = Op("disposeRegistration", regWidget[r], FALSE, FALSE)
    /\ UNCHANGED <<lastFocusedWidget, regWidget, widgetState, activeElement,
                   lastDelivered>>
    /\ UNCHANGED notListService

NextListService ==
    \/ \E w \in Widgets : Register(w)
    \/ \E w \in Widgets : Focus(w)
    \/ Blur
    \/ \E w \in Widgets : WidgetDispose(w)
    \/ \E r \in Regs : DisposeRegistration(r)


(***************************************************************************)
(*                        Properties of ListService                        *)
(***************************************************************************)

\* C1: lastFocusedList is the registered widget that has the focus at that
\* moment, and undefined when no registered widget has the focus.
C1_CurrentlyFocused ==
    lastFocusedWidget =
        IF activeElement # Undefined /\ InLists(activeElement) THEN activeElement
        ELSE Undefined

\* C2, as stated: lastFocusedList is always the widget whose focus ListService
\* noticed most recently among those not disposed since.
C2_MostRecentNotDisposed ==
    lastDelivered # << >> => lastFocusedWidget = lastDelivered[Len(lastDelivered)]

\* C2, amended: an onDidFocus delivered to an attached registration makes its
\* widget lastFocusedList; and lastFocusedList changes only then, when register
\* finds its widget's element active, or when the widget it holds fires
\* onDidDispose, which leaves undefined and not the widget focused before.
C2_FocusTracking ==
    [][ /\ (lastOp'.op = "focus" /\ lastOp'.handled)
            => lastFocusedWidget' = lastOp'.w
        /\ lastFocusedWidget' # lastFocusedWidget
            => \/ /\ lastOp'.op = "focus" /\ lastOp'.handled
                  /\ lastFocusedWidget' = lastOp'.w
               \/ /\ lastOp'.op = "register" /\ ~lastOp'.threw
                  /\ activeElement = lastOp'.w
                  /\ lastFocusedWidget' = lastOp'.w
               \/ /\ lastOp'.op = "widgetDispose" /\ lastOp'.handled
                  /\ lastOp'.w = lastFocusedWidget
                  /\ lastFocusedWidget' = Undefined ]_vars

\* Two registered widgets have been focused in turn; the second one holds.
C2_Witness ==
    /\ lastOp.op = "focus" /\ lastOp.handled
    /\ Len(lastDelivered) >= 2
    /\ lastFocusedWidget = lastOp.w
    /\ \E w \in Widgets : w # lastOp.w /\ InLists(w) /\ InLists(lastOp.w)

\* C3: when a registered widget fires onDidDispose it leaves the registry;
\* lastFocusedList becomes undefined if it was that widget and is unchanged
\* otherwise; so lastFocusedList is never a widget that fired onDidDispose
\* while registered.
C3_WidgetDispose ==
    /\ [][ \A w \in Widgets :
            (widgetState[w] = "alive" /\ widgetState'[w] = "disposedRegistered")
            => /\ ~(InLists(w))'
               /\ lastFocusedWidget = w => lastFocusedWidget' = Undefined
               /\ lastFocusedWidget # w => lastFocusedWidget' = lastFocusedWidget ]_vars
    /\ [](lastFocusedWidget # Undefined
            => widgetState[lastFocusedWidget] # "disposedRegistered")

\* A registered widget was disposed while another widget was lastFocusedList.
C3_Witness ==
    /\ lastOp.op = "widgetDispose" /\ lastOp.handled
    /\ widgetState[lastOp.w] = "disposedRegistered"
    /\ lastFocusedWidget # Undefined
    /\ lastFocusedWidget # lastOp.w

\* C4: register(w) throws whenever an earlier registration of w is still in
\* effect (its disposable not disposed, w not disposed).
C4_RegisterTwiceThrows ==
    (lastOp.op = "register" /\ lastOp.handled) => lastOp.threw

\* C16: removing widget A's registration, by disposing the disposable register
\* returned (once or again) or by A firing onDidDispose, never removes the
\* registry entry of a different widget B.
C16_UnregisterLocal ==
    [][ lastOp'.op \in {"disposeRegistration", "widgetDispose"}
        => \A i \in 1..Len(lists) :
              regWidget[lists[i]] # lastOp'.w
              => \E j \in 1..Len(lists') : lists'[j] = lists[i] ]_vars

\* C17: lastFocusedList is undefined or a widget in the registry: registered,
\* its registration not disposed, and not disposed itself.
C17_LastFocusedRegistered ==
    lastFocusedWidget # Undefined
    => /\ InLists(lastFocusedWidget)
       /\ ActiveRegs(lastFocusedWidget) # {}
       /\ widgetState[lastFocusedWidget] = "alive"

\* C18: a successful register(w) makes w lastFocusedList when w's element is
\* document.activeElement at that moment, and leaves lastFocusedList unchanged
\* when it is not.
C18_RegisterFocused ==
    [][ (lastOp'.op = "register" /\ ~lastOp'.threw)
        => lastFocusedWidget' = IF activeElement = lastOp'.w THEN lastOp'.w
                                ELSE lastFocusedWidget ]_vars

\* A widget whose element had the focus was registered while another widget was
\* in the registry: the new one is lastFocusedList.
C18_Witness ==
    /\ lastOp.op = "register" /\ ~lastOp.threw
    /\ activeElement = lastOp.w
    /\ lastFocusedWidget = lastOp.w
    /\ \E w \in Widgets : w # lastOp.w /\ InLists(w)

\* widget w was registered and none of its registrations is in effect
Unregistered(w) ==
    /\ ActiveRegs(w) = {}
    /\ \E r \in Regs : regState[r] = "disposed" /\ regWidget[r] = w

\* C19: once the disposable register(w) returned is disposed, and until w is
\* registered again, w's onDidFocus and onDidDispose events change neither
\* lastFocusedList nor the registry, and register(w) does not throw.
C19_AfterUnregister ==
    [][ Unregistered(lastOp'.w)
        => /\ lastOp'.op \in {"focus", "widgetDispose"}
                => lastFocusedWidget' = lastFocusedWidget /\ lists' = lists
           /\ lastOp'.op = "register" => ~lastOp'.threw ]_vars

\* A widget whose registration was disposed took the focus and fired
\* onDidFocus: the other widget is still lastFocusedList.
C19_Witness ==
    /\ lastOp.op = "focus"
    /\ Unregistered(lastOp.w)
    /\ lastFocusedWidget # Undefined
    /\ lastFocusedWidget # lastOp.w

(***************************************************************************)
(*                         Configuration service                           *)
(***************************************************************************)
multiSelectModifierSettingKey == "multiSelectModifier"
openModeSettingKey            == "openMode"
horizontalScrollingKey        == "horizontalScrolling"
keyboardNavigationSettingKey  == "keyboardNavigation"
treeIndentKey                 == "indent"

SettingKeys == {multiSelectModifierSettingKey, openModeSettingKey, horizontalScrollingKey,
                keyboardNavigationSettingKey, treeIndentKey}

\* workbench.tree.indent: default, minimum, maximum
DefaultIndent == 8
MinIndent     == 0
MaxIndent     == 40

\* The values a setting may hold: those of its enum and others ("undefined":
\* getValue returns no value at all).
MultiSelectValues        == {"ctrlCmd", "alt", "undefined", "shift"}
OpenModeValues           == {"singleClick", "doubleClick", "undefined"}
KeyboardNavigationValues == {"simple", "highlight", "filter", "undefined"}
IndentValues             == {MinIndent, DefaultIndent, MaxIndent}

DefaultConfig ==
    [multiSelectModifier |-> "ctrlCmd", openMode |-> "singleClick",
     horizontalScrolling |-> FALSE, indent |-> DefaultIndent,
     keyboardNavigation |-> "highlight"]

\* configurationService.getValue(key)
getValue(cfg, key) == cfg[key]

\* The configurations an event naming `affected` may leave behind: a setting
\* changes only with an event that affects its key, and only the settings in
\* `varying` change at all.
ConfigsAfter(cfg, affected, varying) ==
    LET ch(k) == k \in affected /\ k \in varying IN
    [multiSelectModifier : IF ch(multiSelectModifierSettingKey) THEN MultiSelectValues
                           ELSE {cfg.multiSelectModifier},
     openMode            : IF ch(openModeSettingKey) THEN OpenModeValues ELSE {cfg.openMode},
     horizontalScrolling : IF ch(horizontalScrollingKey) THEN BOOLEAN
                           ELSE {cfg.horizontalScrolling},
     indent              : IF ch(treeIndentKey) THEN IndentValues ELSE {cfg.indent},
     keyboardNavigation  : IF ch(keyboardNavigationSettingKey) THEN KeyboardNavigationValues
                           ELSE {cfg.keyboardNavigation}]

\* the sets of keys one configuration-change event may affect
AffectedSets == {a \in SUBSET SettingKeys : a # {} /\ Cardinality(a) <= MaxAffected}

useAltAsMultipleSelectionModifier(cfg) == getValue(cfg, multiSelectModifierSettingKey) = "alt"

\* single click only when the setting says so
useSingleClickToOpenOnlyIfSet(cfg) == getValue(cfg, openModeSettingKey) = "singleClick"

useSingleClickToOpen(cfg) == getValue(cfg, openModeSettingKey) # "doubleClick"

(***************************************************************************)
(*          Context keys bound to a widget's selection and focus           *)
(***************************************************************************)
ListKinds == {"WorkbenchList", "WorkbenchObjectTree", "WorkbenchDataTree",
              "WorkbenchAsyncDataTree"}
WidgetKinds == ListKinds \cup {"WorkbenchTree"}

\* RawContextKey defaults
DefaultKeys ==
    [listHasSelectionOrFocus |-> FALSE, listMultiSelection |-> FALSE,
     listDoubleSelection |-> FALSE]

\* what getFocus() may return: WorkbenchTree has one focused element or none
FocusValues(k) ==
    IF k = "WorkbenchTree" THEN {f \in SUBSET Elements : Cardinality(f) <= 1}
    ELSE SUBSET Elements

WorkbenchListOnSelectionChange(ks, sel, foc) ==
    [listHasSelectionOrFocus |-> Cardinality(sel) > 0 \/ Cardinality(foc) > 0,
     listMultiSelection      |-> Cardinality(sel) > 1,
     listDoubleSelection     |-> Cardinality(sel) = 2]

WorkbenchListOnFocusChange(ks, sel, foc) ==
    [ks EXCEPT !.listHasSelectionOrFocus = Cardinality(sel) > 0 \/ Cardinality(foc) > 0]

\* a listener that takes any selection of two or more for a double selection
WorkbenchTreeOnDidChangeSelectionAtLeastTwo(ks, sel, foc) ==
    [listHasSelectionOrFocus |-> Cardinality(sel) > 0 \/ foc # {},
     listDoubleSelection     |-> Cardinality(sel) >= 2,
     listMultiSelection      |-> Cardinality(sel) > 1]

WorkbenchTreeOnDidChangeSelection(ks, sel, foc) ==
    [listHasSelectionOrFocus |-> Cardinality(sel) > 0 \/ foc # {},
     listDoubleSelection     |-> Cardinality(sel) = 2,
     listMultiSelection      |-> Cardinality(sel) > 1]

WorkbenchTreeOnDidChangeFocus(ks, sel, foc) ==
    [ks EXCEPT !.listHasSelectionOrFocus = Cardinality(sel) > 0 \/ foc # {}]

WorkbenchObjectTreeOnDidChangeSelection(ks, sel, foc) ==
    [listHasSelectionOrFocus |-> Cardinality(sel) > 0 \/ Cardinality(foc) > 0,
     listMultiSelection      |-> Cardinality(sel) > 1,
     listDoubleSelection     |-> Cardinality(sel) = 2]

WorkbenchObjectTreeOnDidChangeFocus(ks, sel, foc) ==
    [ks EXCEPT !.listHasSelectionOrFocus = Cardinality(sel) > 0 \/ Cardinality(foc) > 0]

WorkbenchDataTreeOnDidChangeSelection(ks, sel, foc) ==
    [listHasSelectionOrFocus |-> Cardinality(sel) > 0 \/ Cardinality(foc) > 0,
     listMultiSelection      |-> Cardinality(sel) > 1,
     listDoubleSelection     |-> Cardinality(sel) = 2]

WorkbenchDataTreeOnDidChangeFocus(ks, sel, foc) ==
    [ks EXCEPT !.listHasSelectionOrFocus = Cardinality(sel) > 0 \/ Cardinality(foc) > 0]

WorkbenchAsyncDataTreeOnDidChangeSelection(ks, sel, foc) ==
    [listHasSelectionOrFocus |-> Cardinality(sel) > 0 \/ Cardinality(foc) > 0,
     listMultiSelection      |-> Cardinality(sel) > 1,
     listDoubleSelection     |-> Cardinality(sel) = 2]

WorkbenchAsyncDataTreeOnDidChangeFocus(ks, sel, foc) ==
    [ks EXCEPT !.listHasSelectionOrFocus = Cardinality(sel) > 0 \/ Cardinality(foc) > 0]

\* the selection-change listener the widget of kind k registers on itself
OnSelectionChange(k, ks, sel, foc) ==
    CASE k = "WorkbenchList"          -> WorkbenchListOnSelectionChange(ks, sel, foc)
      [] k = "WorkbenchTree"          -> WorkbenchTreeOnDidChangeSelection(ks, sel, foc)
      [] k = "WorkbenchObjectTree"    -> WorkbenchObjectTreeOnDidChangeSelection(ks, sel, foc)
      [] k = "WorkbenchDataTree"      -> WorkbenchDataTreeOnDidChangeSelection(ks, sel, foc)
      [] k = "WorkbenchAsyncDataTree" -> WorkbenchAsyncDataTreeOnDidChangeSelection(ks, sel, foc)

\* the focus-change listener the widget of kind k registers on itself
OnFocusChange(k, ks, sel, foc) ==
    CASE k = "WorkbenchList"          -> WorkbenchListOnFocusChange(ks, sel, foc)
      [] k = "WorkbenchTree"          -> WorkbenchTreeOnDidChangeFocus(ks, sel, foc)
      [] k = "WorkbenchObjectTree"    -> WorkbenchObjectTreeOnDidChangeFocus(ks, sel, foc)
      [] k = "WorkbenchDataTree"      -> WorkbenchDataTreeOnDidChangeFocus(ks, sel, foc)
      [] k = "WorkbenchAsyncDataTree" -> WorkbenchAsyncDataTreeOnDidChangeFocus(ks, sel, foc)

InitKeys ==
    /\ kind \in WidgetKinds
    /\ selection = {}
    /\ focus = {}
    /\ keys = DefaultKeys

\* The widget's selection becomes sel and its selection-change event is handled.
SelectionChange(sel) ==
    /\ selection' = sel
    /\ keys' = OnSelectionChange(kind, keys, sel, focus)
    /\ UNCHANGED <<kind, focus>>
    /\ UNCHANGED notKeys

\* The widget's focus becomes foc and its focus-change event is handled.
FocusChange(foc) ==
    /\ focus' = foc
    /\ keys' = OnFocusChange(kind, keys, selection, foc)
    /\ UNCHANGED <<kind, selection>>
    /\ UNCHANGED notKeys

NextKeys ==
    \/ \E sel \in SUBSET Elements : SelectionChange(sel)
    \/ \E foc \in FocusValues(kind) : FocusChange(foc)


(***************************************************************************)
(*                     Properties of the context keys                      *)
(***************************************************************************)

\* C5: after every selection-change event the widget handles,
\* listHasSelectionOrFocus = (selection or focus is non-empty),
\* listMultiSelection = (more than one element selected) and
\* listDoubleSelection = (exactly two elements selected).
C5_SelectionKeys ==
    keys = [listHasSelectionOrFocus |-> selection # {} \/ focus # {},
            listMultiSelection      |-> Cardinality(selection) > 1,
            listDoubleSelection     |-> Cardinality(selection) = 2]

\* Two elements are selected, none is focused, and the keys say so.
C5_Witness ==
    /\ Cardinality(selection) = 2 /\ focus = {}
    /\ keys.listHasSelectionOrFocus /\ keys.listMultiSelection /\ keys.listDoubleSelection

(***************************************************************************)
(*        MultipleSelectionController and WorkbenchOpenController          *)
(***************************************************************************)
NoCall == [fn |-> "none"]

\* the mouse events isSelectionSingleChangeEvent is called with
SelectionEvents == [altKey : BOOLEAN, ctrlKey : BOOLEAN, metaKey : BOOLEAN]

\* the UIEvents shouldOpen is called with; detail is the click count
EventTypes   == {"MouseEvent", "KeyboardEvent", "UIEvent"}
ButtonValues == {0, 1, 2}
DetailValues == {0, 1, 2, 3}
OpenEvents ==
    [type : {"MouseEvent"}, button : ButtonValues, detail : DetailValues]
    \cup [type : {"KeyboardEvent", "UIEvent"}, button : {0}, detail : {0}]

\* isSelectionSingleChangeEvent of vs/base/browser/ui/list/listWidget
isSelectionSingleChangeEvent(ev, mac) == IF mac THEN ev.metaKey ELSE ev.ctrlKey

\* new MultipleSelectionController(configurationService)
NewMultipleSelectionController(cfg) ==
    [useAltAsMultipleSelectionModifier |-> useAltAsMultipleSelectionModifier(cfg),
     disposed |-> FALSE]

\* a listener that never refreshes the cached setting
MultipleSelectionControllerIgnoresConfiguration(c, affected, cfg) == c

\* MultipleSelectionController's listener of onDidChangeConfiguration
MultipleSelectionControllerOnDidChangeConfiguration(c, affected, cfg) ==
    IF multiSelectModifierSettingKey \in affected
    THEN [c EXCEPT !.useAltAsMultipleSelectionModifier = useAltAsMultipleSelectionModifier(cfg)]
    ELSE c

\* MultipleSelectionController.isSelectionSingleChangeEvent(event)
MultipleSelectionControllerIsSelectionSingleChangeEvent(c, ev, mac) ==
    IF c.useAltAsMultipleSelectionModifier THEN ev.altKey
    ELSE isSelectionSingleChangeEvent(ev, mac)

\* new WorkbenchOpenController(configurationService, existingOpenController)
NewWorkbenchOpenController(cfg, existing) ==
    [openOnSingleClick |-> useSingleClickToOpen(cfg),
     existingOpenController |-> existing, disposed |-> FALSE]

\* WorkbenchOpenController's listener of onDidChangeConfiguration
WorkbenchOpenControllerOnDidChangeConfiguration(c, affected, cfg) ==
    IF openModeSettingKey \in affected
    THEN [c EXCEPT !.openOnSingleClick = useSingleClickToOpen(cfg)]
    ELSE c

\* WorkbenchOpenController.shouldOpen(event); `answer` is what the wrapped
\* controller's shouldOpen returns for this event
WorkbenchOpenControllerShouldOpen(c, ev, answer) ==
    IF ev.type = "MouseEvent" THEN
        LET isLeftButton  == ev.button = 0
            isDoubleClick == ev.detail = 2
        IN  IF isLeftButton /\ ~c.openOnSingleClick /\ ~isDoubleClick THEN FALSE
            ELSE IF isLeftButton \/ ev.button = 1
                 THEN (IF c.existingOpenController THEN answer ELSE TRUE)
                 ELSE FALSE
    ELSE (IF c.existingOpenController THEN answer ELSE TRUE)

\* the settings the two controllers read
ControllerSettings == {multiSelectModifierSettingKey, openModeSettingKey}

InitControllers ==
    /\ config \in ConfigsAfter(DefaultConfig, ControllerSettings, ControllerSettings)
    /\ isMacintosh \in BOOLEAN
    /\ msc = NewMultipleSelectionController(config)
    /\ \E existing \in BOOLEAN : woc = NewWorkbenchOpenController(config, existing)
    /\ lastCall = NoCall

\* The configuration changes and onDidChangeConfiguration is delivered to the
\* listeners still registered.
ControllersConfigurationChange(affected, cfg) ==
    /\ cfg \in ConfigsAfter(config, affected, ControllerSettings)
    /\ config' = cfg
    /\ msc' = IF msc.disposed THEN msc
              ELSE MultipleSelectionControllerOnDidChangeConfiguration(msc, affected, cfg)
    /\ woc' = IF woc.disposed THEN woc
              ELSE WorkbenchOpenControllerOnDidChangeConfiguration(woc, affected, cfg)
    /\ lastCall' = [fn |-> "onDidChangeConfiguration", affected |-> affected]
    /\ UNCHANGED isMacintosh
    /\ UNCHANGED notControllers

CallIsSelectionSingleChangeEvent(ev) ==
    /\ lastCall' = [fn |-> "isSelectionSingleChangeEvent", event |-> ev,
                    result |-> MultipleSelectionControllerIsSelectionSingleChangeEvent(
                                   msc, ev, isMacintosh)]
    /\ UNCHANGED <<config, msc, woc, isMacintosh>>
    /\ UNCHANGED notControllers

CallShouldOpen(ev, answer) ==
    /\ lastCall' = [fn |-> "shouldOpen", event |-> ev, answer |-> answer,
                    result |-> WorkbenchOpenControllerShouldOpen(woc, ev, answer)]
    /\ UNCHANGED <<config, msc, woc, isMacintosh>>
    /\ UNCHANGED notControllers

\* Disposable.dispose(): the configuration listener is removed
DisposeMultipleSelectionController ==
    /\ ~msc.disposed
    /\ msc' = [msc EXCEPT !.disposed = TRUE]
    /\ lastCall' = NoCall
    /\ UNCHANGED <<config, woc, isMacintosh>>
    /\ UNCHANGED notControllers

DisposeWorkbenchOpenController ==
    /\ ~woc.disposed
    /\ woc' = [woc EXCEPT !.disposed = TRUE]
    /\ lastCall' = NoCall
    /\ UNCHANGED <<config, msc, isMacintosh>>
    /\ UNCHANGED notControllers

NextControllers ==
    \/ \E affected \in AffectedSets :
          \E cfg \in ConfigsAfter(config, affected, ControllerSettings) :
              ControllersConfigurationChange(affected, cfg)
    \/ \E ev \in SelectionEvents : CallIsSelectionSingleChangeEvent(ev)
    \/ \E ev \in OpenEvents, answer \in BOOLEAN : CallShouldOpen(ev, answer)
    \/ DisposeMultipleSelectionController
    \/ DisposeWorkbenchOpenController


(***************************************************************************)
(*                   Properties of the two controllers                     *)
(***************************************************************************)

\* C6: while its configuration listener is registered,
\* MultipleSelectionController.isSelectionSingleChangeEvent(event) returns
\* event.altKey when workbench.list.multiSelectModifier is 'alt' and the
\* default ctrl/cmd predicate's result for any other value of the setting.
C6_MultiSelectModifier ==
    (lastCall.fn = "isSelectionSingleChangeEvent" /\ ~msc.disposed)
    => lastCall.result =
         IF config.multiSelectModifier = "alt" THEN lastCall.event.altKey
         ELSE isSelectionSingleChangeEvent(lastCall.event, isMacintosh)

\* With the setting 'alt', a click with alt and without ctrl or cmd is a
\* single-change event.
C6_Witness ==
    /\ lastCall.fn = "isSelectionSingleChangeEvent" /\ ~msc.disposed
    /\ config.multiSelectModifier = "alt"
    /\ lastCall.event.altKey /\ ~lastCall.event.ctrlKey /\ ~lastCall.event.metaKey
    /\ lastCall.result

\* C7: while its configuration listener is registered, for a left-button
\* MouseEvent WorkbenchOpenController.shouldOpen returns false when
\* workbench.list.openMode is 'doubleClick' and detail is not 2, and otherwise
\* the wrapped controller's answer, or true when it wraps none.
C7_OpenMode ==
    (/\ lastCall.fn = "shouldOpen" /\ ~woc.disposed
     /\ lastCall.event.type = "MouseEvent" /\ lastCall.event.button = 0)
    => lastCall.result =
         IF config.openMode = "doubleClick" /\ lastCall.event.detail # 2 THEN FALSE
         ELSE IF woc.existingOpenController THEN lastCall.answer ELSE TRUE

\* In doubleClick mode a single left click does not open, though the wrapped
\* controller would.
C7_Witness ==
    /\ lastCall.fn = "shouldOpen" /\ ~woc.disposed
    /\ lastCall.event = [type |-> "MouseEvent", button |-> 0, detail |-> 1]
    /\ config.openMode = "doubleClick"
    /\ woc.existingOpenController /\ lastCall.answer
    /\ ~lastCall.result

(***************************************************************************)
(*   WorkbenchObjectTree, WorkbenchDataTree and WorkbenchAsyncDataTree     *)
(***************************************************************************)
TreeKinds == {"WorkbenchObjectTree", "WorkbenchDataTree", "WorkbenchAsyncDataTree"}

NoTree       == [state |-> "none"]
DisposedTree == [state |-> "disposed"]

\* An options object is a function from the names of the options it defines.
\* { ...a, ...b }
Spread(a, b) ==
    [k \in DOMAIN a \cup DOMAIN b |-> IF k \in DOMAIN b THEN b[k] ELSE a[k]]

\* the options a caller may pass to the constructor: each one defined or not
CallerOptions ==
    { [k \in d |-> full[k]] :
        full \in [indent : {MaxIndent}, openOnSingleClick : BOOLEAN,
                  horizontalScrolling : BOOLEAN, filterOnType : {TRUE}],
        d \in SUBSET {"indent", "openOnSingleClick", "horizontalScrolling", "filterOnType"} }

\* AbstractTree.updateOptions(optionsUpdate)
updateOptions(options, optionsUpdate) == Spread(options, optionsUpdate)

\* a constructor that spreads the caller's options last
WorkbenchObjectTreeOptionsCallerLast(options, cfg) ==
    LET keyboardNavigation == getValue(cfg, keyboardNavigationSettingKey) IN
    Spread([indent                   |-> getValue(cfg, treeIndentKey),
            simpleKeyboardNavigation |-> keyboardNavigation = "simple",
            filterOnType             |-> keyboardNavigation = "filter",
            horizontalScrolling      |-> getValue(cfg, horizontalScrollingKey),
            openOnSingleClick        |-> useSingleClickToOpen(cfg)],
           options)

\* the options new WorkbenchObjectTree(..., options, ...) hands to ObjectTree
WorkbenchObjectTreeOptions(options, cfg) ==
    LET keyboardNavigation  == getValue(cfg, keyboardNavigationSettingKey)
        horizontalScrolling == IF "horizontalScrolling" \in DOMAIN options
                               THEN options.horizontalScrolling
                               ELSE getValue(cfg, horizontalScrollingKey)
        openOnSingleClick   == useSingleClickToOpen(cfg)
    IN  Spread(options,
               [indent                   |-> getValue(cfg, treeIndentKey),
                simpleKeyboardNavigation |-> keyboardNavigation = "simple",
                filterOnType             |-> keyboardNavigation = "filter",
                horizontalScrolling      |-> horizontalScrolling,
                openOnSingleClick        |-> openOnSingleClick])

\* the options new WorkbenchDataTree(..., options, ...) hands to DataTree
WorkbenchDataTreeOptions(options, cfg) ==
    LET keyboardNavigation  == getValue(cfg, keyboardNavigationSettingKey)
        horizontalScrolling == IF "horizontalScrolling" \in DOMAIN options
                               THEN options.horizontalScrolling
                               ELSE getValue(cfg, horizontalScrollingKey)
        openOnSingleClick   == useSingleClickToOpen(cfg)
    IN  Spread(options,
               [indent                   |-> getValue(cfg, treeIndentKey),
                simpleKeyboardNavigation |-> keyboardNavigation = "simple",
                filterOnType             |-> keyboardNavigation = "filter",
                horizontalScrolling      |-> horizontalScrolling,
                openOnSingleClick        |-> openOnSingleClick])

\* the options new WorkbenchAsyncDataTree(..., options, ...) hands to AsyncDataTree
WorkbenchAsyncDataTreeOptions(options, cfg) ==
    LET keyboardNavigation  == getValue(cfg, keyboardNavigationSettingKey)
        horizontalScrolling == IF "horizontalScrolling" \in DOMAIN options
                               THEN options.horizontalScrolling
                               ELSE getValue(cfg, horizontalScrollingKey)
        openOnSingleClick   == useSingleClickToOpen(cfg)
    IN  Spread(options,
               [indent                   |-> getValue(cfg, treeIndentKey),
                simpleKeyboardNavigation |-> keyboardNavigation = "simple",
                filterOnType             |-> keyboardNavigation = "filter",
                horizontalScrolling      |-> horizontalScrolling,
                openOnSingleClick        |-> openOnSingleClick])

\* a constructor that reads the setting whatever the caller passed
WorkbenchListOptionsSettingOnly(options, cfg) ==
    Spread(options, [horizontalScrolling |-> getValue(cfg, horizontalScrollingKey)])

\* the options new WorkbenchList(..., options, ...) hands to List
WorkbenchListOptions(options, cfg) ==
    LET horizontalScrolling == IF "horizontalScrolling" \in DOMAIN options
                               THEN options.horizontalScrolling
                               ELSE getValue(cfg, horizontalScrollingKey)
    IN  Spread(options, [horizontalScrolling |-> horizontalScrolling])

\* the options new WorkbenchPagedList(..., options, ...) hands to PagedList
WorkbenchPagedListOptions(options, cfg) ==
    LET horizontalScrolling == IF "horizontalScrolling" \in DOMAIN options
                               THEN options.horizontalScrolling
                               ELSE getValue(cfg, horizontalScrollingKey)
    IN  Spread(options, [horizontalScrolling |-> horizontalScrolling])

\* a branch that tests the wrong key
TreeOpenModeUpdateWrongKey(options, affected, cfg) ==
    IF multiSelectModifierSettingKey \in affected
    THEN Spread(options, [openOnSingleClick |-> useSingleClickToOpen(cfg)])
    ELSE options

\* the open-mode branch of the trees' listener of onDidChangeConfiguration
TreeOpenModeUpdate(options, affected, cfg) ==
    IF openModeSettingKey \in affected
    THEN updateOptions(options, [openOnSingleClick |-> useSingleClickToOpen(cfg)])
    ELSE options

\* its indent branch
TreeIndentUpdate(options, affected, cfg) ==
    IF treeIndentKey \in affected
    THEN LET indent == getValue(cfg, treeIndentKey) IN updateOptions(options, [indent |-> indent])
    ELSE options

\* a branch that updates simpleKeyboardNavigation and forgets filterOnType
TreeKeyboardNavigationUpdateSimpleOnly(options, affected, cfg) ==
    IF keyboardNavigationSettingKey \in affected
    THEN Spread(options, [simpleKeyboardNavigation |->
                              getValue(cfg, keyboardNavigationSettingKey) = "simple"])
    ELSE options

\* its keyboard-navigation branch
TreeKeyboardNavigationUpdate(options, affected, cfg) ==
    IF keyboardNavigationSettingKey \in affected
    THEN LET keyboardNavigation == getValue(cfg, keyboardNavigationSettingKey) IN
         updateOptions(options, [simpleKeyboardNavigation |-> keyboardNavigation = "simple",
                                 filterOnType             |-> keyboardNavigation = "filter"])
    ELSE options

\* the listener of onDidChangeConfiguration, the same in the three classes: its
\* four branches in the order of the source
TreeOnDidChangeConfiguration(t, affected, cfg) ==
    [t EXCEPT
        !.options = TreeKeyboardNavigationUpdate(
                        TreeIndentUpdate(
                            TreeOpenModeUpdate(t.options, affected, cfg), affected, cfg),
                        affected, cfg),
        !.useAltAsMultipleSelectionModifier =
            IF multiSelectModifierSettingKey \in affected
            THEN useAltAsMultipleSelectionModifier(cfg)
            ELSE t.useAltAsMultipleSelectionModifier]

ConstructorOptions(k, options, cfg) ==
    CASE k = "WorkbenchObjectTree"    -> WorkbenchObjectTreeOptions(options, cfg)
      [] k = "WorkbenchDataTree"      -> WorkbenchDataTreeOptions(options, cfg)
      [] k = "WorkbenchAsyncDataTree" -> WorkbenchAsyncDataTreeOptions(options, cfg)

PlainListKinds == {"WorkbenchList", "WorkbenchPagedList"}

\* the IListOptions a caller may pass: horizontalScrolling defined or not
ListCallerOptions ==
    { [k \in d |-> full[k]] :
        full \in [horizontalScrolling : BOOLEAN], d \in SUBSET {"horizontalScrolling"} }

ListConstructorOptions(k, options, cfg) ==
    CASE k = "WorkbenchList"      -> WorkbenchListOptions(options, cfg)
      [] k = "WorkbenchPagedList" -> WorkbenchPagedListOptions(options, cfg)

\* the settings the trees read at construction or in their configuration listener
TreeSettings == {openModeSettingKey, horizontalScrollingKey, keyboardNavigationSettingKey,
                 treeIndentKey}

InitTree ==
    /\ config = DefaultConfig
    /\ tree = NoTree
    /\ lastCall = NoCall

\* new WorkbenchObjectTree / WorkbenchDataTree / WorkbenchAsyncDataTree
ConstructTree(k, options) ==
    /\ tree.state = "none"
    /\ tree' = [state |-> "live",
                options |-> ConstructorOptions(k, options, config),
                useAltAsMultipleSelectionModifier |-> useAltAsMultipleSelectionModifier(config)]
    /\ lastCall' = [fn |-> "constructor", kind |-> k, options |-> options]
    /\ UNCHANGED config
    /\ UNCHANGED notTree

\* new WorkbenchList / WorkbenchPagedList: the options handed to the widget
ConstructList(k, options) ==
    /\ lastCall' = [fn |-> "listConstructor", kind |-> k, options |-> options,
                    handed |-> ListConstructorOptions(k, options, config)]
    /\ UNCHANGED <<config, tree>>
    /\ UNCHANGED notTree

\* The configuration changes and onDidChangeConfiguration is delivered to the
\* tree, if there is one.
TreeConfigurationChange(affected, cfg) ==
    /\ cfg \in ConfigsAfter(config, affected, TreeSettings)
    /\ config' = cfg
    /\ tree' = IF tree.state = "live" THEN TreeOnDidChangeConfiguration(tree, affected, cfg)
               ELSE tree
    /\ lastCall' = [fn |-> "onDidChangeConfiguration", affected |-> affected]
    /\ UNCHANGED notTree

\* dispose(): the tree's listeners are removed
DisposeTree ==
    /\ tree.state = "live"
    /\ tree' = DisposedTree
    /\ lastCall' = NoCall
    /\ UNCHANGED config
    /\ UNCHANGED notTree

NextTree ==
    \/ \E k \in TreeKinds, options \in CallerOptions : ConstructTree(k, options)
    \/ \E k \in PlainListKinds, options \in ListCallerOptions : ConstructList(k, options)
    \/ \E affected \in AffectedSets :
          \E cfg \in ConfigsAfter(config, affected, TreeSettings) :
              TreeConfigurationChange(affected, cfg)
    \/ DisposeTree

(***************************************************************************)
(*                   Properties of the workbench trees                     *)
(***************************************************************************)
Live == tree.state = "live"

\* a configuration-change event that does not affect key is delivered to the tree
DeliveredNotAffecting(key) ==
    /\ Live /\ tree'.state = "live"
    /\ lastCall'.fn = "onDidChangeConfiguration"
    /\ key \notin lastCall'.affected

\* C8: from its construction on, and after every configuration-change event, a
\* tree's openOnSingleClick is (workbench.list.openMode is not 'doubleClick'),
\* whatever the caller passed; an event that does not affect that key leaves
\* the option as it was.
C8_OpenOnSingleClick ==
    /\ [](Live => tree.options.openOnSingleClick = (config.openMode # "doubleClick"))
    /\ [][DeliveredNotAffecting(openModeSettingKey)
            => tree'.options.openOnSingleClick = tree.options.openOnSingleClick]_vars

\* An event affecting the open mode has switched the tree to double click.
C8_Witness ==
    /\ Live
    /\ lastCall.fn = "onDidChangeConfiguration"
    /\ openModeSettingKey \in lastCall.affected
    /\ config.openMode = "doubleClick"
    /\ ~tree.options.openOnSingleClick

\* C9: from its construction on, and after every configuration-change event, a
\* tree's simpleKeyboardNavigation is (workbench.list.keyboardNavigation =
\* 'simple') and its filterOnType is (the setting = 'filter'); the two are
\* never both true.
C9_KeyboardNavigation ==
    Live =>
      /\ tree.options.simpleKeyboardNavigation = (config.keyboardNavigation = "simple")
      /\ tree.options.filterOnType = (config.keyboardNavigation = "filter")
      /\ ~(tree.options.simpleKeyboardNavigation /\ tree.options.filterOnType)

\* An event affecting the keyboard navigation has switched the tree to filter.
C9_Witness ==
    /\ Live
    /\ lastCall.fn = "onDidChangeConfiguration"
    /\ keyboardNavigationSettingKey \in lastCall.affected
    /\ config.keyboardNavigation = "filter"
    /\ tree.options.filterOnType /\ ~tree.options.simpleKeyboardNavigation

\* C10: from its construction on, and after every configuration-change event,
\* a tree's indent is the value of workbench.tree.indent, whatever the caller
\* passed; an event that does not affect that key leaves indent as it was.
C10_Indent ==
    /\ [](Live => tree.options.indent = config.indent)
    /\ [][DeliveredNotAffecting(treeIndentKey)
            => tree'.options.indent = tree.options.indent]_vars

\* The caller passed another indent than the setting's: the setting's is used.
C10_Witness ==
    /\ Live
    /\ lastCall.fn = "constructor"
    /\ "indent" \in DOMAIN lastCall.options
    /\ lastCall.options.indent # config.indent
    /\ tree.options.indent = config.indent

\* the horizontalScrolling a constructor called with `options` is to hand over
HorizontalScrollingWanted(options) ==
    IF "horizontalScrolling" \in DOMAIN options THEN options.horizontalScrolling
    ELSE config.horizontalScrolling

\* C11: the horizontalScrolling a list or tree constructor hands to its widget
\* is the caller's options.horizontalScrolling when the caller defined it, and
\* the value of workbench.tree.horizontalScrolling at construction otherwise.
C11_HorizontalScrolling ==
    /\ lastCall.fn = "constructor"
        => tree.options.horizontalScrolling = HorizontalScrollingWanted(lastCall.options)
    /\ lastCall.fn = "listConstructor"
        => lastCall.handed.horizontalScrolling = HorizontalScrollingWanted(lastCall.options)

\* The setting is on and the caller of a list constructor turned scrolling off.
C11_Witness ==
    /\ lastCall.fn = "listConstructor"
    /\ "horizontalScrolling" \in DOMAIN lastCall.options
    /\ ~lastCall.options.horizontalScrolling
    /\ config.horizontalScrolling
    /\ ~lastCall.handed.horizontalScrolling

(***************************************************************************)
(*                         TreeResourceNavigator2                          *)
(***************************************************************************)
\* the elements of the tree the navigator listens to
NavElements == {"a", "b"}

\* getSelection()[0] of an empty selection
NoElement == "undefined"

\* what getSelection() and getFocus() may return
SelectionArrays ==
    {<< >>} \cup {<<x>> : x \in NavElements}
            \cup {p \in NavElements \X NavElements : p[1] # p[2]}
FocusArrays == {<< >>} \cup {<<x>> : x \in NavElements}

\* ITreeEvent.browserEvent: none (a programmatic change), or a UIEvent.
\* preserveFocus is the field getSelectionKeyboardEvent adds to a KeyboardEvent.
NoBrowserEvent == [class |-> "none"]
BrowserEvents ==
    {NoBrowserEvent}
    \cup { e \in [class : {"MouseEvent"}, type : {"click"}, button : {0, 1}, detail : {1, 2},
                  ctrlKey : BOOLEAN, metaKey : BOOLEAN, altKey : BOOLEAN,
                  preserveFocus : {"undefined"}] :
             ~(e.ctrlKey /\ e.metaKey) /\ ~(e.ctrlKey /\ e.altKey) /\ ~(e.metaKey /\ e.altKey) }
    \cup [class : {"MouseEvent"}, type : {"contextmenu"}, button : {2}, detail : {1},
          ctrlKey : {FALSE}, metaKey : {FALSE}, altKey : {FALSE}, preserveFocus : {"undefined"}]
    \cup [class : {"KeyboardEvent"}, type : {"keydown"}, button : {0}, detail : {0},
          ctrlKey : BOOLEAN, metaKey : {FALSE}, altKey : {FALSE},
          preserveFocus : {"undefined", "true", "false"}]
    \cup [class : {"UIEvent"}, type : {"tap"}, button : {0}, detail : {0},
          ctrlKey : {FALSE}, metaKey : {FALSE}, altKey : {FALSE}, preserveFocus : {"undefined"}]

\* getSelectionKeyboardEvent(typeArg, preserveFocus)
getSelectionKeyboardEvent(typeArg, preserveFocus) ==
    [class |-> "KeyboardEvent", type |-> typeArg, button |-> 0, detail |-> 0,
     ctrlKey |-> FALSE, metaKey |-> FALSE, altKey |-> FALSE, preserveFocus |-> preserveFocus]

\* an open that reveals nothing
NavigatorOpenNoReveal(preserveFocus, pinned, sideBySide, sel, by) ==
    [preserveFocus |-> preserveFocus, pinned |-> pinned, revealIfVisible |-> FALSE,
     sideBySide |-> sideBySide, element |-> IF sel = << >> THEN NoElement ELSE sel[1],
     by |-> by]

\* TreeResourceNavigator2.open: the event it fires; sel is tree.getSelection(),
\* by names the handler that called it
NavigatorOpen(preserveFocus, pinned, sideBySide, sel, by) ==
    [preserveFocus |-> preserveFocus, pinned |-> pinned, revealIfVisible |-> TRUE,
     sideBySide |-> sideBySide, element |-> IF sel = << >> THEN NoElement ELSE sel[1],
     by |-> by]

\* a guard that lets context-menu events through
OnSelectionOpensContextMenuToo(ev, openOnSingleClick) ==
    /\ ev # NoBrowserEvent
    /\ openOnSingleClick \/ ev.detail = 2 \/ ev.class = "KeyboardEvent"

\* onSelection: whether it opens
OnSelectionOpens(ev, openOnSingleClick) ==
    /\ ~(ev = NoBrowserEvent \/ ev.type = "contextmenu")
    /\ openOnSingleClick \/ ev.detail = 2 \/ ev.class = "KeyboardEvent"

\* a preserveFocus that ignores the keyboard event's flag
OnSelectionPreserveFocusNoFlag(ev) == ~(ev.detail = 2)

\* onSelection: the preserveFocus it opens with
OnSelectionPreserveFocus(ev) ==
    IF ev.class = "KeyboardEvent" /\ ev.preserveFocus \in {"true", "false"}
    THEN ev.preserveFocus = "true"
    ELSE ~(ev.detail = 2)

\* TreeResourceNavigator2.onSelection(e): the open events it fires
TreeResourceNavigator2OnSelection(ev, openOnSingleClick, sel) ==
    IF OnSelectionOpens(ev, openOnSingleClick) THEN
        LET isMiddleClick == IF ev.class = "MouseEvent" THEN ev.button = 1 ELSE FALSE
            isDoubleClick == ev.detail = 2
            sideBySide    == ev.class = "MouseEvent"
                                /\ (ev.ctrlKey \/ ev.metaKey \/ ev.altKey)
        IN  <<NavigatorOpen(OnSelectionPreserveFocus(ev), isDoubleClick \/ isMiddleClick,
                            sideBySide, sel, "onSelection")>>
    ELSE << >>

\* tree.setSelection(elements, browserEvent): the selection it leaves; it fires
\* onDidChangeSelection with browserEvent before it returns
setSelection(elements, browserEvent) == elements

\* TreeResourceNavigator2.onFocus(e): the selection it leaves and the open
\* events fired before it returns, those of the onSelection its setSelection
\* call runs first
TreeResourceNavigator2OnFocus(ev, openOnSingleClick, foc) ==
    LET sel == setSelection(foc, ev)
        bySelection == TreeResourceNavigator2OnSelection(ev, openOnSingleClick, sel)
        isMouseEvent == ev # NoBrowserEvent /\ ev.class = "MouseEvent"
        own == IF ev = NoBrowserEvent THEN << >>
               ELSE IF ~isMouseEvent
                    THEN <<NavigatorOpen(TRUE, FALSE, FALSE, sel, "onFocus")>>
                    ELSE << >>
    IN  [selection |-> sel, opened |-> bySelection \o own]

\* new TreeResourceNavigator2(tree, options) on a tree with nothing selected
InitNavigator ==
    /\ nav \in [openOnFocus : BOOLEAN, openOnSingleClick : BOOLEAN,
                selection : {<< >>}, focus : {<< >>}, disposed : {FALSE}]
    /\ opened = << >>
    /\ lastCall = NoCall

\* The tree's selection becomes sel (a click, a key, or a setSelection call of
\* other code) and onDidChangeSelection is delivered.
NavSelectionChange(sel, ev) ==
    /\ nav' = [nav EXCEPT !.selection = sel]
    /\ opened' = IF nav.disposed THEN << >>
                 ELSE TreeResourceNavigator2OnSelection(ev, nav.openOnSingleClick, sel)
    /\ lastCall' = [fn |-> "onDidChangeSelection", event |-> ev, selectionEvent |-> TRUE]
    /\ UNCHANGED notNavigator

\* The tree's focus becomes foc and onDidChangeFocus is delivered; the
\* navigator listens to it only with openOnFocus.
NavFocusChange(foc, ev) ==
    /\ LET listening == ~nav.disposed /\ nav.openOnFocus
           r == TreeResourceNavigator2OnFocus(ev, nav.openOnSingleClick, foc)
       IN  /\ nav' = [nav EXCEPT !.focus = foc,
                                 !.selection = IF listening THEN r.selection ELSE @]
           /\ opened' = IF listening THEN r.opened ELSE << >>
           /\ lastCall' = [fn |-> "onDidChangeFocus", event |-> ev,
                           selectionEvent |-> listening]
    /\ UNCHANGED notNavigator

\* The tree's openOnSingleClick option is updated (the open mode setting changed).
NavOpenModeChange ==
    /\ nav' = [nav EXCEPT !.openOnSingleClick = ~@]
    /\ opened' = << >>
    /\ lastCall' = NoCall
    /\ UNCHANGED notNavigator

\* Disposable.dispose(): the navigator's two listeners are removed
DisposeNavigator ==
    /\ ~nav.disposed
    /\ nav' = [nav EXCEPT !.disposed = TRUE]
    /\ opened' = << >>
    /\ lastCall' = NoCall
    /\ UNCHANGED notNavigator

NextNavigator ==
    \/ \E sel \in SelectionArrays, ev \in BrowserEvents : NavSelectionChange(sel, ev)
    \/ \E foc \in FocusArrays, ev \in BrowserEvents : NavFocusChange(foc, ev)
    \/ NavOpenModeChange
    \/ DisposeNavigator

(***************************************************************************)
(*                      Properties of the navigator                        *)
(***************************************************************************)
\* a selection-change event has just been delivered to the navigator's
\* onSelection, by the tree or by the setSelection call of onFocus
SelectionEventHandled ==
    /\ lastCall.fn \in {"onDidChangeSelection", "onDidChangeFocus"}
    /\ lastCall.selectionEvent
    /\ ~nav.disposed

\* the open events onSelection fired for it
OpenedBySelection == SelectSeq(opened, LAMBDA o : o.by = "onSelection")

\* C12: on a selection-change event onSelection fires one open event if the
\* event carries a browserEvent whose type is not 'contextmenu' and the tree
\* opens on single click, or the detail is 2, or it is a KeyboardEvent; and
\* none otherwise.
C12_OpensWhenUserInitiated ==
    SelectionEventHandled =>
        LET ev == lastCall.event
            fires == /\ ev.class # "none"
                     /\ ev.type # "contextmenu"
                     /\ nav.openOnSingleClick \/ ev.detail = 2 \/ ev.class = "KeyboardEvent"
        IN  Len(OpenedBySelection) = IF fires THEN 1 ELSE 0

\* A key press opens in double-click mode.
C12_Witness ==
    /\ lastCall.fn = "onDidChangeSelection" /\ ~nav.disposed
    /\ lastCall.event.class = "KeyboardEvent"
    /\ ~nav.openOnSingleClick
    /\ Len(opened) = 1

\* C13: in every open event onSelection fires, pinned is (detail = 2 or a
\* MouseEvent with button 1), sideBySide is (a MouseEvent with ctrlKey, metaKey
\* or altKey), revealIfVisible is true and element is the first element of the
\* tree's selection.
C13_OpenEventFields ==
    SelectionEventHandled =>
        \A i \in 1..Len(OpenedBySelection) :
            LET o  == OpenedBySelection[i]
                ev == lastCall.event
            IN  /\ o.pinned = (ev.detail = 2 \/ (ev.class = "MouseEvent" /\ ev.button = 1))
                /\ o.sideBySide = (/\ ev.class = "MouseEvent"
                                   /\ ev.ctrlKey \/ ev.metaKey \/ ev.altKey)
                /\ o.revealIfVisible
                /\ o.element = IF nav.selection = << >> THEN NoElement
                               ELSE Head(nav.selection)

\* A single middle click with alt on a two-element selection: pinned, side by
\* side, and the first element of the selection.
C13_Witness ==
    /\ lastCall.fn = "onDidChangeSelection" /\ ~nav.disposed
    /\ lastCall.event.class = "MouseEvent"
    /\ lastCall.event.button = 1 /\ lastCall.event.detail = 1 /\ lastCall.event.altKey
    /\ nav.selection = <<"b", "a">>
    /\ Len(opened) = 1
    /\ opened[1].pinned /\ opened[1].sideBySide /\ opened[1].element = "b"

\* C14: in every open event onSelection fires, preserveFocus is the
\* KeyboardEvent's preserveFocus flag when it carries a boolean one, and
\* (detail is not 2) otherwise.
C14_PreserveFocus ==
    SelectionEventHandled =>
        \A i \in 1..Len(OpenedBySelection) :
            LET ev == lastCall.event IN
            OpenedBySelection[i].preserveFocus =
                IF ev.class = "KeyboardEvent" /\ ev.preserveFocus # "undefined"
                THEN ev.preserveFocus = "true"
                ELSE ev.detail # 2

\* The event getSelectionKeyboardEvent('keydown', false) builds opens without
\* preserving the focus.
C14_Witness ==
    /\ lastCall.fn = "onDidChangeSelection" /\ ~nav.disposed
    /\ lastCall.event = getSelectionKeyboardEvent("keydown", "false")
    /\ Len(opened) = 1
    /\ ~opened[1].preserveFocus

\* C20: with openOnFocus, at most one open event is fired per focus-change
\* event of the tree, those of the selection-change event its setSelection
\* call triggers included.
C20_AtMostOneOpenPerFocusChange ==
    (lastCall.fn = "onDidChangeFocus" /\ nav.openOnFocus /\ ~nav.disposed)
        => Len(opened) <= 1

(***************************************************************************)
(*                        WorkbenchTreeController                          *)
(***************************************************************************)
NoTreeController == [state |-> "none"]

\* OpenMode, and what a caller may pass as IControllerOptions.openMode
OpenModes == {"SINGLE_CLICK", "DOUBLE_CLICK"}
OpenModeOptions == OpenModes \cup {"undefined"}

\* WorkbenchTreeController.getOpenModeSetting()
getOpenModeSetting(cfg) ==
    IF useSingleClickToOpen(cfg) THEN "SINGLE_CLICK" ELSE "DOUBLE_CLICK"

\* DefaultController.setOpenMode(openMode)
setOpenMode(c, openMode) == [c EXCEPT !.openMode = openMode]

\* new WorkbenchTreeController(options, configurationService); optionsOpenMode
\* keeps what the caller passed as options.openMode
NewWorkbenchTreeController(openMode, cfg) ==
    LET c == [state |-> "live", openMode |-> openMode, optionsOpenMode |-> openMode,
              listening |-> FALSE]
    IN  IF openMode = "undefined"
        THEN [setOpenMode(c, getOpenModeSetting(cfg)) EXCEPT !.listening = TRUE]
        ELSE c

\* a listener that never refreshes the open mode
WorkbenchTreeControllerIgnoresConfiguration(c, affected, cfg) == c

\* WorkbenchTreeController's listener of onDidChangeConfiguration
WorkbenchTreeControllerOnDidChangeConfiguration(c, affected, cfg) ==
    IF openModeSettingKey \in affected THEN setOpenMode(c, getOpenModeSetting(cfg))
    ELSE c

\* the setting the controller reads
TreeControllerSettings == {openModeSettingKey}

InitTreeController ==
    /\ config \in ConfigsAfter(DefaultConfig, TreeControllerSettings, TreeControllerSettings)
    /\ wtc = NoTreeController
    /\ lastCall = NoCall

ConstructTreeController(openMode) ==
    /\ wtc.state # "live"
    /\ wtc' = NewWorkbenchTreeController(openMode, config)
    /\ lastCall' = [fn |-> "constructor", openMode |-> openMode]
    /\ UNCHANGED config
    /\ UNCHANGED notTreeController

\* The configuration changes and onDidChangeConfiguration is delivered to the
\* controller's listener, if it registered one and is not disposed.
TreeControllerConfigurationChange(affected, cfg) ==
    /\ cfg \in ConfigsAfter(config, affected, TreeControllerSettings)
    /\ config' = cfg
    /\ wtc' = IF wtc.state = "live" /\ wtc.listening
              THEN WorkbenchTreeControllerOnDidChangeConfiguration(wtc, affected, cfg)
              ELSE wtc
    /\ lastCall' = [fn |-> "onDidChangeConfiguration", affected |-> affected]
    /\ UNCHANGED notTreeController

\* WorkbenchTreeController.dispose(): the listener is removed
DisposeTreeController ==
    /\ wtc.state = "live"
    /\ wtc' = [wtc EXCEPT !.state = "disposed", !.listening = FALSE]
    /\ lastCall' = NoCall
    /\ UNCHANGED config
    /\ UNCHANGED notTreeController

NextTreeController ==
    \/ \E openMode \in OpenModeOptions : ConstructTreeController(openMode)
    \/ \E affected \in AffectedSets :
          \E cfg \in ConfigsAfter(config, affected, TreeControllerSettings) :
              TreeControllerConfigurationChange(affected, cfg)
    \/ DisposeTreeController

(***************************************************************************)
(*                 Properties of WorkbenchTreeController                   *)
(***************************************************************************)

\* C15: a controller constructed without options.openMode has the open mode
\* SINGLE_CLICK iff workbench.list.openMode is not 'doubleClick', from its
\* construction on and after every configuration-change event delivered to
\* it; one constructed with options.openMode keeps that mode.
C15_TreeControllerOpenMode ==
    wtc.state = "live" =>
        IF wtc.optionsOpenMode = "undefined"
        THEN (wtc.openMode = "SINGLE_CLICK") = (config.openMode # "doubleClick")
        ELSE wtc.openMode = wtc.optionsOpenMode

\* An event affecting the open mode has switched a controller configured from
\* the settings to double click.
C15_Witness ==
    /\ wtc.state = "live" /\ wtc.optionsOpenMode = "undefined"
    /\ lastCall.fn = "onDidChangeConfiguration"
    /\ openModeSettingKey \in lastCall.affected
    /\ config.openMode = "doubleClick"
    /\ wtc.openMode = "DOUBLE_CLICK"

(***************************************************************************)
(*                            Specifications                               *)
(***************************************************************************)
IdleListService == InitListService
IdleConfig      == config = DefaultConfig
IdleKeys        == kind = "WorkbenchList" /\ selection = {} /\ focus = {} /\ keys = DefaultKeys
IdleControllers ==
    /\ isMacintosh = FALSE
    /\ msc = NewMultipleSelectionController(DefaultConfig)
    /\ woc = NewWorkbenchOpenController(DefaultConfig, FALSE)
IdleCall        == lastCall = NoCall
IdleTree        == tree = NoTree
IdleNavigator   ==
    /\ nav = [openOnFocus |-> FALSE, openOnSingleClick |-> TRUE, selection |-> << >>,
              focus |-> << >>, disposed |-> FALSE]
    /\ opened = << >>
IdleTreeController == wtc = NoTreeController

\* ListService
Init ==
    /\ InitListService /\ IdleConfig /\ IdleKeys /\ IdleControllers /\ IdleCall /\ IdleTree
    /\ IdleNavigator /\ IdleTreeController
Next == NextListService
Spec == Init /\ [][Next]_vars

\* the context keys of one widget
InitSpecKeys ==
    /\ InitKeys /\ IdleListService /\ IdleConfig /\ IdleControllers /\ IdleCall /\ IdleTree
    /\ IdleNavigator /\ IdleTreeController
SpecKeys == InitSpecKeys /\ [][NextKeys]_vars

\* the two controllers
InitSpecControllers ==
    /\ InitControllers /\ IdleListService /\ IdleKeys /\ IdleTree
    /\ IdleNavigator /\ IdleTreeController
SpecControllers == InitSpecControllers /\ [][NextControllers]_vars

\* one workbench tree
InitSpecTree ==
    /\ InitTree /\ IdleListService /\ IdleKeys /\ IdleControllers
    /\ IdleNavigator /\ IdleTreeController
SpecTree == InitSpecTree /\ [][NextTree]_vars

\* one TreeResourceNavigator2
InitSpecNavigator ==
    /\ InitNavigator /\ IdleListService /\ IdleConfig /\ IdleKeys /\ IdleControllers
    /\ IdleTree /\ IdleTreeController
SpecNavigator == InitSpecNavigator /\ [][NextNavigator]_vars

\* one WorkbenchTreeController
InitSpecTreeController ==
    /\ InitTreeController /\ IdleListService /\ IdleKeys /\ IdleControllers /\ IdleTree
    /\ IdleNavigator
SpecTreeController == InitSpecTreeController /\ [][NextTreeController]_vars

=============================================================================
